---------------------------- MODULE Spec2Model ----------------------------
(***************************************************************************)
(* Record store of dev-env-tools (governance_file_editor.py) and the       *)
(* capture orchestrator (capture_analyze.py), as a state machine.          *)
(*                                                                         *)
(* A backing file is a sequence of tokens: the stretches of text that the  *)
(* store's regular expressions and substring tests can tell apart.         *)
(* A file system object is an inode; a path names one inode at a time;     *)
(* flock() locks belong to the inode of the descriptor they were taken on. *)
(***************************************************************************)
EXTENDS Integers, Sequences, FiniteSets, TLC

(***************************************************************************)
(* Bounds of the model.                                                    *)
(***************************************************************************)
NumProcs == 2       \* processes working on the same scope, one call each
MaxFileLen == 3     \* tokens of a file in the get_next_id input space
MaxFaults == 1      \* I/O faults and interruptions in one behaviour
MaxChunks == 3      \* chunks of a text given to analyze_text
MaxItems == 3       \* items given to the merge pass on its own
MaxScore == 7       \* score of one type given to _calculate_confidence

(***************************************************************************)
(* Program constants.                                                      *)
(***************************************************************************)
Today == 2          \* date.today(); dates already in the files are earlier
PadWidth == 3       \* the 03d of the identifier format
THRESHOLD == 2      \* minimum score of a candidate item

Procs == 1..NumProcs
Types == {"IDEAS", "ISSUES", "DECISIONS"}
NoIno == 0

(***************************************************************************)
(* Identifiers: a prefix and the digit string after the dash.              *)
(***************************************************************************)
prefix_map(item_type) ==
    CASE item_type = "IDEAS" -> "IDEA"
      [] item_type = "ISSUES" -> "ISSUE"
      [] item_type = "DECISIONS" -> "DEC"

MkId(pfx, ds) == [pfx |-> pfx, ds |-> ds]
NoId == MkId("", <<>>)

\* int(num): the value of a digit string
RECURSIVE ParseInt(_)
ParseInt(ds) ==
    IF ds = <<>> THEN 0
    ELSE 10 * ParseInt(SubSeq(ds, 1, Len(ds) - 1)) + ds[Len(ds)]

\* the decimal digits of n, without padding
RECURSIVE Digits(_)
Digits(n) ==
    IF n < 10 THEN <<n>> ELSE Append(Digits(n \div 10), n % 10)

RECURSIVE ZeroPad(_, _)
ZeroPad(ds, width) ==
    IF Len(ds) >= width THEN ds ELSE ZeroPad(<<0>> \o ds, width)

\* f"{n:03d}"
Format03d(n) == ZeroPad(Digits(n), PadWidth)

(***************************************************************************)
(* Tokens of a backing file.                                               *)
(*   updated  "**Last Updated:** <date>"                     n = the date  *)
(*   total    "**Total Ideas:** <n>", and with fl = "next" followed by     *)
(*            " (next available: IDEA-<ds>)"                               *)
(*   summary  "**Summary:** <n> Open"                                      *)
(*   anchor   the section heading followed by a newline                    *)
(*   anchorx  the section heading followed by other text                   *)
(*   rec      a record block "### <pfx>-<ds> ..." with title t; fl says    *)
(*            whether its heading carries "| OPEN |"                       *)
(*   ref      "<pfx>-<ds>" elsewhere in the text; fl = "pre"/"post" when a *)
(*            word character precedes/follows it directly                  *)
(***************************************************************************)
Tok(k, id, n, t, fl) == [n |-> n, k |-> k, id |-> id, t |-> t, fl |-> fl]

UpdatedTok(d) == Tok("updated", NoId, d, 0, "")
TotalTok(n, ds) == Tok("total", MkId("IDEA", ds), n, 0, "next")
BareTotalTok(n) == Tok("total", NoId, n, 0, "bare")
SummaryTok(n) == Tok("summary", NoId, n, 0, "")
AnchorTok == Tok("anchor", NoId, 0, 0, "")
AnchorXTok == Tok("anchorx", NoId, 0, 0, "")
RecTok(id, t, fl) == Tok("rec", id, 0, t, fl)
RefTok(id, fl) == Tok("ref", id, 0, 0, fl)

SetMax(S) == CHOOSE x \in S : \A y \in S : y <= x

\* the tokens in which <prefix>-<digits> occurs
HasIdText(tok) == tok.id # NoId

\* re.findall(rf'{prefix}-(\d+)', content)
FindAllIds(prefix, content) ==
    {content[i].id.ds : i \in {j \in 1..Len(content) :
        HasIdText(content[j]) /\ content[j].id.pfx = prefix}}

\* the scan taking the last match for the highest
NextIdOfLastMatch(item_type, content) ==
    LET prefix == prefix_map(item_type)
        hits == {j \in 1..Len(content) :
                    HasIdText(content[j]) /\ content[j].id.pfx = prefix}
    IN  IF hits = {} THEN MkId(prefix, <<0, 0, 1>>)
        ELSE MkId(prefix, Format03d(ParseInt(content[SetMax(hits)].id.ds) + 1))

\* the scan giving the highest number itself
NextIdOfHighest(item_type, content) ==
    LET prefix == prefix_map(item_type)
        matches == FindAllIds(prefix, content)
    IN  IF matches = {} THEN MkId(prefix, <<0, 0, 1>>)
        ELSE LET highest == SetMax({ParseInt(num) : num \in matches})
             IN  MkId(prefix, Format03d(highest))

\* get_next_id, after the read
NextIdOf(item_type, content) ==
    LET prefix == prefix_map(item_type)
        matches == FindAllIds(prefix, content)
    IN  IF matches = {} THEN MkId(prefix, <<0, 0, 1>>)
        ELSE LET highest == SetMax({ParseInt(num) : num \in matches})
             IN  MkId(prefix, Format03d(highest + 1))

\* ds is the beginning of es
IsPrefix(ds, es) == Len(ds) <= Len(es) /\ SubSeq(es, 1, Len(ds)) = ds

\* item_id in content: the search without the two \b
SearchSubstring(item_id, content) ==
    \E i \in 1..Len(content) :
        /\ HasIdText(content[i])
        /\ content[i].id.pfx = item_id.pfx
        /\ IsPrefix(item_id.ds, content[i].id.ds)

\* re.match in place of re.search: only the start of the content is tried
MatchBounded(item_id, content) ==
    /\ content # <<>>
    /\ HasIdText(content[1])
    /\ content[1].id = item_id
    /\ content[1].fl \notin {"pre", "post"}

\* re.search(r'\b' + re.escape(item_id) + r'\b', content)
SearchBounded(item_id, content) ==
    \E i \in 1..Len(content) :
        /\ HasIdText(content[i])
        /\ content[i].id = item_id
        /\ content[i].fl \notin {"pre", "post"}


(***************************************************************************)
(* insert_idea / insert_issue: what is done to the content that was read.  *)
(***************************************************************************)
AnchorText(item_type) ==
    IF item_type = "IDEAS" THEN "## Active Ideas" ELSE "## Open Issues"

\* the anchor test left out
AnchorAssumed(content) == TRUE

\* "## Active Ideas" in content
HasAnchor(content) ==
    \E i \in 1..Len(content) : content[i].k \in {"anchor", "anchorx"}

\* a record block under an identifier of its own making
NewBlockRenumbered(item_type, item_id, title) ==
    RecTok(MkId(item_id.pfx, <<0, 0, 0>>), title,
           IF item_type = "ISSUES" THEN "open" ELSE "")

\* the record block built from the arguments
NewBlock(item_type, item_id, title) ==
    RecTok(item_id, title, IF item_type = "ISSUES" THEN "open" ELSE "")

\* content.replace("## Active Ideas\n", f"## Active Ideas\n{new_idea}")
RECURSIVE Splice(_, _)
Splice(content, block) ==
    IF content = <<>> THEN <<>>
    ELSE IF Head(content).k = "anchor"
         THEN <<Head(content), block>> \o Splice(Tail(content), block)
         ELSE <<Head(content)>> \o Splice(Tail(content), block)

\* re.search(r'\*\*Total Ideas:\*\* (\d+)', content): the first match, or 0
FirstTotal(content) ==
    LET hits == {i \in 1..Len(content) : content[i].k = "total"}
    IN  IF hits = {} THEN 0 ELSE CHOOSE i \in hits : \A j \in hits : i <= j

\* re.sub of the Last Updated date, on one token
SetDate(tok) == IF tok.k = "updated" THEN [tok EXCEPT !.n = Today] ELSE tok

_update_ideas_metadata(content, new_id) ==
    LET m == FirstTotal(content)
    IN  IF m = 0 THEN content
        ELSE LET new_total == content[m].n + 1
                 id_num == ParseInt(new_id.ds)
                 next_id == MkId("IDEA", Format03d(id_num + 1))
                 SetTotal(tok) ==
                     IF tok.k = "total" /\ tok.fl = "next"
                     THEN [tok EXCEPT !.n = new_total, !.id = next_id]
                     ELSE tok
             IN  [i \in 1..Len(content) |-> SetTotal(SetDate(content[i]))]

_update_issues_metadata(content) ==
    LET open_count ==
            Cardinality({i \in 1..Len(content) :
                content[i].k = "rec" /\ content[i].fl = "open"})
        SetSummary(tok) ==
            IF tok.k = "summary" THEN [tok EXCEPT !.n = open_count] ELSE tok
    IN  [i \in 1..Len(content) |-> SetSummary(SetDate(content[i]))]

\* the content insert_idea / insert_issue hands to atomic_write
Inserted(item_type, content, item_id, title) ==
    LET spliced == Splice(content, NewBlock(item_type, item_id, title))
    IN  IF item_type = "IDEAS"
        THEN _update_ideas_metadata(spliced, item_id)
        ELSE _update_issues_metadata(spliced)


(***************************************************************************)
(* State.                                                                  *)
(***************************************************************************)
VARIABLES
    disk,       \* disk[i]: content of inode i (a sequence of tokens)
    path,       \* path[item_type]: inode the backing-file path names, or NoIno
    temps,      \* inodes linked in the directory under a mkstemp name
    pc,         \* pc[p]: where process p stands in its call
    op,         \* op[p]: the call p is in: name, item type, identifier, title
    fd,         \* fd[p]: inode of the file object f that p has open, or NoIno
    held,       \* held[p]: p holds flock(LOCK_EX) on the inode fd[p]
    buf,        \* buf[p]: the local variable content
    tmp,        \* tmp[p]: inode of temp_path, or NoIno
    res,        \* res[p]: how p's last call ended
    nfaults,    \* I/O faults and interruptions so far
    returned    \* the insert calls that returned success

\* The classifier (governance_analyzer.py) shares nothing with the store.
VARIABLES
    text,       \* the argument of analyze_text: a sequence of atoms
    scores,     \* the argument of _calculate_confidence: one score per type
    items,      \* the local variable items of analyze_text
    confidence, \* what _calculate_confidence returned, in tenths
    priority,   \* what suggest_priority_or_severity returned
    apc         \* where the classifier stands

avars == <<text, scores, items, confidence, priority, apc>>

vars == <<disk, path, temps, pc, op, fd, held, buf, tmp, res, nfaults,
          returned, text, scores, items, confidence, priority, apc>>

InsertTypes == {"IDEAS", "ISSUES"}

Op(name, item_type, id, title) ==
    [id |-> id, title |-> title, name |-> name, type |-> item_type]
NoOp == Op("", "", NoId, 0)

Res(kind, id, msg) == [id |-> id, kind |-> kind, msg |-> msg]
NoRes == Res("", NoId, "")

\* the content a reader of the path gets
Visible(item_type) ==
    IF path[item_type] = NoIno THEN <<>> ELSE disk[path[item_type]]

\* fcntl.flock(f.fileno(), LOCK_EX) returns: nobody holds a lock on the inode
LockFree(ino) == \A q \in Procs : ~(held[q] /\ fd[q] = ino)

(***************************************************************************)
(* The backing files before the first call.                                *)
(***************************************************************************)
SoundIdeas ==
    <<UpdatedTok(1), TotalTok(2, <<0, 0, 8>>), AnchorTok,
      RecTok(MkId("IDEA", <<0, 0, 7>>), 0, ""),
      RecTok(MkId("IDEA", <<0, 0, 1>>), 0, "")>>

\* no "## Active Ideas" heading
BareIdeas ==
    <<UpdatedTok(1), TotalTok(1, <<0, 0, 2>>),
      RecTok(MkId("IDEA", <<0, 0, 1>>), 0, "")>>

SoundIssues ==
    <<UpdatedTok(1), SummaryTok(1), AnchorTok,
      RecTok(MkId("ISSUE", <<0, 0, 1>>), 0, "open"),
      RecTok(MkId("ISSUE", <<0, 0, 2>>), 0, "closed")>>

\* no "## Open Issues" heading
BareIssues == <<UpdatedTok(1), SummaryTok(0)>>

DecisionsFile == <<RecTok(MkId("DEC", <<0, 0, 1>>), 0, "")>>

\* the identifiers a caller passes to insert_idea / insert_issue directly
CallerIds(item_type) ==
    {MkId(prefix_map(item_type), ds) : ds \in {<<0, 0, 1>>, <<0, 0, 5>>}}

\* the identifiers check_id_collision is asked about on its own
CheckedIds(item_type) ==
    {MkId(prefix_map(item_type), ds) :
        ds \in {<<1>>, <<0, 0, 1>>, <<0, 0, 7>>, <<9, 9, 9>>, <<0, 0, 1, 2>>,
                <<0, 4, 1>>, <<0, 0>>}}

\* the classifier is not in use
NoAnalysis ==
    /\ text = <<>>
    /\ scores = <<>>
    /\ items = <<>>
    /\ confidence = 0
    /\ priority = ""
    /\ apc = "off"

Idle ==
    /\ NoAnalysis
    /\ temps = {}
    /\ pc = [p \in Procs |-> "idle"]
    /\ op = [p \in Procs |-> NoOp]
    /\ fd = [p \in Procs |-> NoIno]
    /\ held = [p \in Procs |-> FALSE]
    /\ buf = [p \in Procs |-> <<>>]
    /\ tmp = [p \in Procs |-> NoIno]
    /\ res = [p \in Procs |-> NoRes]
    /\ nfaults = 0
    /\ returned = {}

\* The three files do not interact, so two scopes stand for all: every
\* file in order, and every file lacking what a call needs.
Init ==
    /\ \E sound \in BOOLEAN :
        /\ disk = IF sound THEN <<SoundIdeas, SoundIssues, DecisionsFile>>
                  ELSE <<BareIdeas, BareIssues>>
        /\ path = [t \in Types |->
                      CASE t = "IDEAS" -> 1
                        [] t = "ISSUES" -> 2
                        [] t = "DECISIONS" -> IF sound THEN 3 ELSE NoIno]
    /\ Idle


(***************************************************************************)
(* Calls.  A process makes one call: a store call, or a capture            *)
(* (get_next_id, then insert with the identifier it returned).  The store  *)
(* keeps nothing between calls, so a process that makes several calls is   *)
(* several of these processes, one after the other.  Processes are         *)
(* numbered in the order of their calls; the title identifies the call.    *)
(***************************************************************************)
Start(p, o, at) ==
    /\ pc[p] = "idle"
    /\ UNCHANGED avars
    /\ \A q \in Procs : q < p => pc[q] # "idle"
    /\ op' = [op EXCEPT ![p] = o]
    /\ pc' = [pc EXCEPT ![p] = at]
    /\ res' = [res EXCEPT ![p] = NoRes]
    /\ UNCHANGED <<disk, path, temps, fd, held, buf, tmp, nfaults, returned>>

CallGetNextId(p) ==
    \E t \in Types : Start(p, Op("get_next_id", t, NoId, 0), "gni_open")

CallCheckIdCollision(p) ==
    \E t \in Types : \E id \in CheckedIds(t) :
        Start(p, Op("check_id_collision", t, id, 0), "chk_read")

CallInsert(p) ==
    \E t \in InsertTypes : \E id \in CallerIds(t) :
        Start(p, Op("insert", t, id, p), "ins_check")

CallCapture(p) ==
    \E t \in InsertTypes :
        Start(p, Op("capture", t, NoId, p), "gni_open")

\* the call ends with the lock still held
ReturnLocked(p, r) ==
    /\ pc' = [pc EXCEPT ![p] = "done"]
    /\ res' = [res EXCEPT ![p] = r]
    /\ fd' = fd
    /\ held' = held
    /\ buf' = [buf EXCEPT ![p] = <<>>]
    /\ tmp' = [tmp EXCEPT ![p] = NoIno]

\* the call of p ends with r; the with-block has closed f
Return(p, r) ==
    /\ pc' = [pc EXCEPT ![p] = "done"]
    /\ res' = [res EXCEPT ![p] = r]
    /\ fd' = [fd EXCEPT ![p] = NoIno]
    /\ held' = [held EXCEPT ![p] = FALSE]
    /\ buf' = [buf EXCEPT ![p] = <<>>]
    /\ tmp' = [tmp EXCEPT ![p] = NoIno]

Fault == nfaults < MaxFaults /\ nfaults' = nfaults + 1

(***************************************************************************)
(* get_next_id                                                             *)
(***************************************************************************)
GniOpen(p) ==
    /\ pc[p] = "gni_open"
    /\ UNCHANGED avars
    /\ UNCHANGED <<disk, path, temps, op, returned>>
    /\ \/ /\ path[op[p].type] = NoIno
          /\ Return(p, Res("GovernanceFileNotFoundError", NoId, "File not found"))
          /\ UNCHANGED nfaults
       \/ /\ path[op[p].type] # NoIno
          /\ fd' = [fd EXCEPT ![p] = path[op[p].type]]
          /\ pc' = [pc EXCEPT ![p] = "gni_lock"]
          /\ UNCHANGED <<held, buf, tmp, res, nfaults>>

\* open() raises PermissionError
GniOpenFault(p) ==
    /\ pc[p] = "gni_open"
    /\ UNCHANGED avars
    /\ path[op[p].type] # NoIno
    /\ Fault
    /\ Return(p, Res("GovernanceFileError", NoId, "Permission denied reading"))
    /\ UNCHANGED <<disk, path, temps, op, returned>>

GniLock(p) ==
    /\ pc[p] = "gni_lock"
    /\ UNCHANGED avars
    /\ LockFree(fd[p])
    /\ held' = [held EXCEPT ![p] = TRUE]
    /\ pc' = [pc EXCEPT ![p] = "gni_read"]
    /\ UNCHANGED <<disk, path, temps, op, fd, buf, tmp, res, nfaults, returned>>

\* f.read(), LOCK_UN, close, and the scan of what was read
GniRead(p) ==
    /\ pc[p] = "gni_read"
    /\ UNCHANGED avars
    /\ UNCHANGED <<disk, path, temps, nfaults, returned>>
    /\ LET next == NextIdOf(op[p].type, disk[fd[p]])
       IN  IF op[p].name = "capture"
           THEN /\ op' = [op EXCEPT ![p].id = next]
                /\ pc' = [pc EXCEPT ![p] = "ins_check"]
                /\ fd' = [fd EXCEPT ![p] = NoIno]
                /\ held' = [held EXCEPT ![p] = FALSE]
                /\ UNCHANGED <<buf, tmp, res>>
           ELSE /\ Return(p, Res("ok", next, ""))
                /\ UNCHANGED op

\* f.read() raises UnicodeDecodeError; the finally branch unlocks
GniReadFault(p) ==
    /\ pc[p] = "gni_read"
    /\ UNCHANGED avars
    /\ Fault
    /\ Return(p, Res("GovernanceFileError", NoId, "Encoding error"))
    /\ UNCHANGED <<disk, path, temps, op, returned>>

(***************************************************************************)
(* check_id_collision                                                      *)
(***************************************************************************)
\* the except branch answering False
FailOpen(item_type, item_id, fault) ==
    IF path[item_type] = NoIno THEN FALSE
    ELSE IF fault THEN FALSE
    ELSE SearchBounded(item_id, disk[path[item_type]])

check_id_collision(item_type, item_id, fault) ==
    IF path[item_type] = NoIno THEN FALSE
    ELSE IF fault THEN TRUE
    ELSE SearchBounded(item_id, disk[path[item_type]])

ChkRead(p) ==
    /\ pc[p] = "chk_read"
    /\ UNCHANGED avars
    /\ Return(p, Res(IF check_id_collision(op[p].type, op[p].id, FALSE)
                     THEN "EXISTS" ELSE "AVAILABLE", op[p].id, ""))
    /\ UNCHANGED <<disk, path, temps, op, nfaults, returned>>

\* open() or f.read() raises inside check_id_collision
ChkReadFault(p) ==
    /\ pc[p] = "chk_read"
    /\ UNCHANGED avars
    /\ path[op[p].type] # NoIno
    /\ Fault
    /\ Return(p, Res(IF check_id_collision(op[p].type, op[p].id, TRUE)
                     THEN "EXISTS" ELSE "AVAILABLE", op[p].id, ""))
    /\ UNCHANGED <<disk, path, temps, op, returned>>

\* file_path.exists() raises (stat fails with EACCES): the test stands before
\* the try block, so the exception leaves check_id_collision as it is
ChkExistsFault(p) ==
    /\ pc[p] = "chk_read"
    /\ UNCHANGED avars
    /\ path[op[p].type] # NoIno
    /\ Fault
    /\ Return(p, Res("PermissionError", NoId, "stat"))
    /\ UNCHANGED <<disk, path, temps, op, returned>>

(***************************************************************************)
(* insert_idea / insert_issue                                              *)
(***************************************************************************)
\* the collision re-check that opens the call
InsCheck(p) ==
    /\ pc[p] = "ins_check"
    /\ UNCHANGED avars
    /\ UNCHANGED <<disk, path, temps, op, returned>>
    /\ \/ /\ check_id_collision(op[p].type, op[p].id, FALSE)
          /\ Return(p, Res("IDCollisionError", op[p].id, "ID already exists"))
          /\ UNCHANGED nfaults
       \/ /\ ~check_id_collision(op[p].type, op[p].id, FALSE)
          /\ pc' = [pc EXCEPT ![p] = "ins_open"]
          /\ UNCHANGED <<fd, held, buf, tmp, res, nfaults>>

\* open() or f.read() raises inside the re-check
InsCheckFault(p) ==
    /\ pc[p] = "ins_check"
    /\ UNCHANGED avars
    /\ path[op[p].type] # NoIno
    /\ Fault
    /\ check_id_collision(op[p].type, op[p].id, TRUE)
    /\ Return(p, Res("IDCollisionError", op[p].id, "ID already exists"))
    /\ UNCHANGED <<disk, path, temps, op, returned>>

\* open(file_path, 'r+')
InsOpen(p) ==
    /\ pc[p] = "ins_open"
    /\ UNCHANGED avars
    /\ UNCHANGED <<disk, path, temps, op, returned>>
    /\ \/ /\ path[op[p].type] = NoIno
          /\ Return(p, Res("GovernanceFileNotFoundError", NoId, "File not found"))
          /\ UNCHANGED nfaults
       \/ /\ path[op[p].type] # NoIno
          /\ fd' = [fd EXCEPT ![p] = path[op[p].type]]
          /\ pc' = [pc EXCEPT ![p] = "ins_lock"]
          /\ UNCHANGED <<held, buf, tmp, res, nfaults>>

\* open() raises PermissionError
InsOpenFault(p) ==
    /\ pc[p] = "ins_open"
    /\ UNCHANGED avars
    /\ path[op[p].type] # NoIno
    /\ Fault
    /\ Return(p, Res("GovernanceFileError", NoId, "Permission denied"))
    /\ UNCHANGED <<disk, path, temps, op, returned>>

InsLock(p) ==
    /\ pc[p] = "ins_lock"
    /\ UNCHANGED avars
    /\ LockFree(fd[p])
    /\ held' = [held EXCEPT ![p] = TRUE]
    /\ pc' = [pc EXCEPT ![p] = "ins_read"]
    /\ UNCHANGED <<disk, path, temps, op, fd, buf, tmp, res, nfaults, returned>>

\* f.read(), the anchor test, the splice and the metadata update
InsRead(p) ==
    /\ pc[p] = "ins_read"
    /\ UNCHANGED avars
    /\ UNCHANGED <<disk, path, temps, op, nfaults, returned>>
    /\ LET content == disk[fd[p]]
       IN  IF ~HasAnchor(content)
           THEN Return(p, Res("GovernanceFileError", NoId,
                              AnchorText(op[p].type)))
           ELSE /\ buf' = [buf EXCEPT ![p] =
                              Inserted(op[p].type, content, op[p].id, op[p].title)]
                /\ pc' = [pc EXCEPT ![p] = "aw_mkstemp"]
                /\ UNCHANGED <<fd, held, tmp, res>>

(***************************************************************************)
(* atomic_write, called by insert with the lock held                       *)
(***************************************************************************)
\* the content written over the backing file itself
WriteInPlace(p) == path[op[p].type]

\* the inode os.write() writes content to
WriteTarget(p) == tmp[p]

\* tempfile.mkstemp(dir=...): outside the try block, so a fault is not wrapped
AwMkstemp(p) ==
    /\ pc[p] = "aw_mkstemp"
    /\ UNCHANGED avars
    /\ disk' = Append(disk, <<>>)
    /\ temps' = temps \cup {Len(disk) + 1}
    /\ tmp' = [tmp EXCEPT ![p] = Len(disk) + 1]
    /\ pc' = [pc EXCEPT ![p] = "aw_write"]
    /\ UNCHANGED <<path, op, fd, held, buf, res, nfaults, returned>>

\* mkstemp raises; insert's finally branch unlocks
AwMkstempFault(p) ==
    /\ pc[p] = "aw_mkstemp"
    /\ UNCHANGED avars
    /\ Fault
    /\ Return(p, Res("OSError", NoId, "mkstemp"))
    /\ UNCHANGED <<disk, path, temps, op, returned>>

\* os.unlink(temp_path) in the except branch
Unlink(p) == temps' = temps \ {tmp[p]}

\* os.write(fd, content.encode('utf-8')); os.close(fd)
AwWrite(p) ==
    /\ pc[p] = "aw_write"
    /\ UNCHANGED avars
    /\ disk' = [disk EXCEPT ![WriteTarget(p)] = buf[p]]
    /\ pc' = [pc EXCEPT ![p] = "aw_replace"]
    /\ UNCHANGED <<path, temps, op, fd, held, buf, tmp, res, nfaults, returned>>

\* os.write or os.close raises: the except branch, then insert's finally
AwWriteFault(p) ==
    /\ pc[p] = "aw_write"
    /\ UNCHANGED avars
    /\ Fault
    /\ Unlink(p)
    /\ Return(p, Res("GovernanceFileError", NoId, "Atomic write failed"))
    /\ UNCHANGED <<disk, path, op, returned>>

\* os.replace(temp_path, str(file_path))
AwReplace(p) ==
    /\ pc[p] = "aw_replace"
    /\ UNCHANGED avars
    /\ path' = [path EXCEPT ![op[p].type] = tmp[p]]
    /\ temps' = temps \ {tmp[p]}
    /\ pc' = [pc EXCEPT ![p] = "ins_unlock"]
    /\ UNCHANGED <<disk, op, fd, held, buf, tmp, res, nfaults, returned>>

\* os.replace raises: the except branch, then insert's finally
AwReplaceFault(p) ==
    /\ pc[p] = "aw_replace"
    /\ UNCHANGED avars
    /\ Fault
    /\ Unlink(p)
    /\ Return(p, Res("GovernanceFileError", NoId, "Atomic write failed"))
    /\ UNCHANGED <<disk, path, op, returned>>

\* the call returns without LOCK_UN and with f left open
InsUnlockKeep(p) ==
    /\ pc[p] = "ins_unlock"
    /\ UNCHANGED avars
    /\ ReturnLocked(p, Res("ok", op[p].id, ""))
    /\ returned' = returned \cup {op[p]}
    /\ UNCHANGED <<disk, path, temps, op, nfaults>>

\* the finally branch and the end of the with-block; the call returns
InsUnlock(p) ==
    /\ pc[p] = "ins_unlock"
    /\ UNCHANGED avars
    /\ Return(p, Res("ok", op[p].id, ""))
    /\ returned' = returned \cup {op[p]}
    /\ UNCHANGED <<disk, path, temps, op, nfaults>>

(***************************************************************************)
(* The process is killed inside a call: the kernel closes its descriptors  *)
(* and with them drops its lock; nothing else is undone.  Only a kill      *)
(* while the lock is held is a step of its own: killed anywhere else, the  *)
(* process is one that takes no further step.                              *)
(***************************************************************************)
Interrupt(p) ==
    /\ held[p]
    /\ UNCHANGED avars
    /\ Fault
    /\ pc' = [pc EXCEPT ![p] = "dead"]
    /\ fd' = [fd EXCEPT ![p] = NoIno]
    /\ held' = [held EXCEPT ![p] = FALSE]
    /\ buf' = [buf EXCEPT ![p] = <<>>]
    /\ tmp' = [tmp EXCEPT ![p] = NoIno]
    /\ UNCHANGED <<disk, path, temps, op, res, returned>>

Next ==
    \E p \in Procs :
        \/ CallGetNextId(p)
        \/ CallInsert(p)
        \/ CallCapture(p)
        \/ GniOpen(p)
        \/ GniLock(p)
        \/ GniRead(p)
        \/ InsCheck(p)
        \/ InsOpen(p)
        \/ InsLock(p)
        \/ InsRead(p)
        \/ AwMkstemp(p)
        \/ AwWrite(p)
        \/ AwReplace(p)
        \/ InsUnlock(p)

\* the calls, with no I/O fault and no interruption
Spec == Init /\ [][Next]_vars

NextFaulty ==
    \/ Next
    \/ \E p \in Procs :
        \/ AwMkstempFault(p)
        \/ AwWriteFault(p)
        \/ AwReplaceFault(p)
        \/ Interrupt(p)

\* the calls, with up to MaxFaults faults of the atomic-write phase and
\* interruptions of a lock holder
SpecFaulty == Init /\ [][NextFaulty]_vars

NextReadFaulty ==
    \/ Next
    \/ \E p \in Procs :
        \/ GniOpenFault(p)
        \/ GniReadFault(p)
        \/ InsCheckFault(p)
        \/ InsOpenFault(p)

\* the calls, with up to MaxFaults faults of open() and read()
SpecReadFaulty == Init /\ [][NextReadFaulty]_vars


NextAllFaulty ==
    \/ NextFaulty
    \/ \E p \in Procs :
        \/ GniOpenFault(p)
        \/ GniReadFault(p)
        \/ InsCheckFault(p)
        \/ InsOpenFault(p)

\* the calls, with up to MaxFaults faults of any I/O step and interruptions
\* of a lock holder
SpecAllFaulty == Init /\ [][NextAllFaulty]_vars

(***************************************************************************)
(* The calls under fair scheduling.  Every I/O step may fail, no process   *)
(* is killed or suspended.  The operating system runs every process that   *)
(* can run, and flock() returns once the inode's lock is free: each        *)
(* process's own steps are weakly fair.  A fault is the environment's      *)
(* choice and is not forced.                                               *)
(***************************************************************************)
Steps(p) ==
    \/ GniOpen(p)
    \/ GniLock(p)
    \/ GniRead(p)
    \/ InsCheck(p)
    \/ InsOpen(p)
    \/ InsLock(p)
    \/ InsRead(p)
    \/ AwMkstemp(p)
    \/ AwWrite(p)
    \/ AwReplace(p)
    \/ InsUnlock(p)

\* every process calls on the one file they all contend for
InitLive ==
    /\ disk = <<SoundIdeas>>
    /\ path = [t \in Types |-> IF t = "IDEAS" THEN 1 ELSE NoIno]
    /\ Idle

CallLive(p) ==
    \/ Start(p, Op("get_next_id", "IDEAS", NoId, 0), "gni_open")
    \/ \E id \in CallerIds("IDEAS") :
          Start(p, Op("insert", "IDEAS", id, p), "ins_check")
    \/ Start(p, Op("capture", "IDEAS", NoId, p), "gni_open")

NextLive ==
    \E p \in Procs :
        \/ CallLive(p)
        \/ Steps(p)
        \/ GniOpenFault(p)
        \/ GniReadFault(p)
        \/ InsCheckFault(p)
        \/ InsOpenFault(p)
        \/ AwMkstempFault(p)
        \/ AwWriteFault(p)
        \/ AwReplaceFault(p)

SpecLive ==
    InitLive /\ [][NextLive]_vars /\ \A p \in Procs : WF_vars(Steps(p))

(***************************************************************************)
(* capture_idea / capture_issue alone: every process runs one capture,     *)
(* on files in order, without their heading, or not there at all, with up  *)
(* to MaxFaults faults of any I/O step.                                    *)
(***************************************************************************)
InitCapture ==
    \/ Init
    \/ /\ disk = <<DecisionsFile>>
       /\ path = [t \in Types |-> IF t = "DECISIONS" THEN 1 ELSE NoIno]
       /\ Idle

NextCapture ==
    \E p \in Procs :
        \/ CallCapture(p)
        \/ GniOpen(p)
        \/ GniOpenFault(p)
        \/ GniLock(p)
        \/ GniRead(p)
        \/ GniReadFault(p)
        \/ InsCheck(p)
        \/ InsCheckFault(p)
        \/ InsOpen(p)
        \/ InsOpenFault(p)
        \/ InsLock(p)
        \/ InsRead(p)
        \/ AwMkstemp(p)
        \/ AwMkstempFault(p)
        \/ AwWrite(p)
        \/ AwWriteFault(p)
        \/ AwReplace(p)
        \/ AwReplaceFault(p)
        \/ InsUnlock(p)

SpecCapture == InitCapture /\ [][NextCapture]_vars

(***************************************************************************)
(* get_next_id as a function of the file content: one process, one call,   *)
(* the file drawn from all token sequences of up to MaxFileLen tokens.     *)
(***************************************************************************)
NextIdTokens ==
    { RefTok(MkId("IDEA", <<1>>), ""),
      RefTok(MkId("IDEA", <<0, 0, 1>>), ""),
      RecTok(MkId("IDEA", <<0, 0, 3>>), 0, ""),
      RecTok(MkId("IDEA", <<0, 0, 7>>), 0, ""),
      TotalTok(3, <<0, 0, 9>>),
      RefTok(MkId("IDEA", <<9, 9, 9>>), "pre"),
      RefTok(MkId("IDEA", <<0, 0, 1, 2>>), "post"),
      RefTok(MkId("ISSUE", <<0, 4, 1>>), ""),
      RefTok(MkId("DEC", <<1, 0, 0, 0>>), ""),
      AnchorTok }

NextIdFiles ==
    UNION {[1..n -> NextIdTokens] : n \in 0..MaxFileLen}

InitNextId ==
    /\ \E t \in Types, f \in NextIdFiles :
        /\ disk = <<f>>
        /\ path = [u \in Types |-> IF u = t THEN 1 ELSE NoIno]
    /\ Idle

NextNextId ==
    \/ CallGetNextId(1)
    \/ GniOpen(1)
    \/ GniOpenFault(1)
    \/ GniLock(1)
    \/ GniRead(1)
    \/ GniReadFault(1)

SpecNextId == InitNextId /\ [][NextNextId]_vars

(***************************************************************************)
(* One capture with no other process: get_next_id and insert on the same   *)
(* content, the file drawn from all token sequences of up to MaxFileLen    *)
(* tokens, with up to MaxFaults faults of any I/O step.                    *)
(***************************************************************************)
InitCaptureAlone ==
    /\ \E t \in InsertTypes, f \in NextIdFiles :
        /\ disk = <<f>>
        /\ path = [u \in Types |-> IF u = t THEN 1 ELSE NoIno]
    /\ Idle

NextCaptureAlone ==
    \/ CallCapture(1)
    \/ GniOpen(1)
    \/ GniOpenFault(1)
    \/ GniLock(1)
    \/ GniRead(1)
    \/ GniReadFault(1)
    \/ InsCheck(1)
    \/ InsCheckFault(1)
    \/ InsOpen(1)
    \/ InsOpenFault(1)
    \/ InsLock(1)
    \/ InsRead(1)
    \/ AwMkstemp(1)
    \/ AwMkstempFault(1)
    \/ AwWrite(1)
    \/ AwWriteFault(1)
    \/ AwReplace(1)
    \/ AwReplaceFault(1)
    \/ InsUnlock(1)

SpecCaptureAlone == InitCaptureAlone /\ [][NextCaptureAlone]_vars

(***************************************************************************)
(* check_id_collision as a function of the file content and the            *)
(* identifier: one process, one call, the file drawn from the token        *)
(* sequences in which an identifier stands alone, inside a longer          *)
(* identifier, or against a word character.                                *)
(***************************************************************************)
CheckIdTokens ==
    { RefTok(MkId("IDEA", <<1>>), ""),
      RefTok(MkId("IDEA", <<1, 0>>), ""),
      RefTok(MkId("IDEA", <<1, 0, 0>>), ""),
      RecTok(MkId("IDEA", <<0, 0, 1>>), 0, ""),
      RefTok(MkId("IDEA", <<0, 0, 7>>), "pre"),
      RefTok(MkId("IDEA", <<0, 0, 7>>), "post"),
      TotalTok(1, <<0, 0, 1, 2>>),
      RefTok(MkId("ISSUE", <<0, 4, 1>>), "") }

CheckIdFiles ==
    UNION {[1..n -> CheckIdTokens] : n \in 0..MaxFileLen}

InitCheckId ==
    /\ \E t \in Types, f \in CheckIdFiles :
        /\ disk = <<f>>
        /\ path = [u \in Types |-> IF u = t THEN 1 ELSE NoIno]
    /\ Idle

NextCheckId ==
    \/ CallCheckIdCollision(1)
    \/ ChkRead(1)
    \/ ChkReadFault(1)
    \/ ChkExistsFault(1)

SpecCheckId == InitCheckId /\ [][NextCheckId]_vars

(***************************************************************************)
(* insert_idea / insert_issue as a function of the file content: one       *)
(* process, one call, the file drawn from the token sequences of up to     *)
(* MaxFileLen tokens in which the section heading stands alone on its      *)
(* line, is followed by other text, stands twice, or is missing, and the   *)
(* header carries its counts in either form.                               *)
(***************************************************************************)
InsertTokens ==
    { UpdatedTok(1),
      TotalTok(2, <<0, 0, 8>>),
      BareTotalTok(2),
      SummaryTok(1),
      AnchorTok,
      AnchorXTok,
      RecTok(MkId("IDEA", <<0, 0, 1>>), 0, ""),
      RecTok(MkId("ISSUE", <<0, 0, 1>>), 0, "open") }

InsertFiles ==
    UNION {[1..n -> InsertTokens] : n \in 0..MaxFileLen}

InitInsertOne ==
    /\ \E t \in InsertTypes, f \in InsertFiles :
        /\ disk = <<f>>
        /\ path = [u \in Types |-> IF u = t THEN 1 ELSE NoIno]
    /\ Idle

NextInsertOne ==
    \/ CallInsert(1)
    \/ InsCheck(1)
    \/ InsOpen(1)
    \/ InsLock(1)
    \/ InsRead(1)
    \/ AwMkstemp(1)
    \/ AwWrite(1)
    \/ AwReplace(1)
    \/ InsUnlock(1)

SpecInsertOne == InitInsertOne /\ [][NextInsertOne]_vars

(***************************************************************************)
(* The classifier.  A text is a sequence of atoms: words and parts of      *)
(* words, the blank, and punctuation marks, each atom a string of its own. *)
(* A catalog entry is the sequence of its atoms; "x in sentence" is        *)
(* "the atoms of x stand next to each other in the sentence".              *)
(***************************************************************************)
ItemTypes == <<"ISSUE", "IDEA", "DECISION", "LESSON", "TASK">>

\* the words of ws with one blank between them
RECURSIVE Words(_)
Words(ws) ==
    IF Len(ws) <= 1 THEN ws ELSE <<Head(ws), " ">> \o Words(Tail(ws))

\* SIGNALS, in the order of ItemTypes
SIGNALS ==
    << \* ISSUE
        [ keywords |-> <<
            <<"broken">>, Words(<<"doesn't", "work">>), <<"failing">>,
            Words(<<"not", "working">>), <<"bug">>, <<"error">>, <<"gap">>,
            <<"missing">>, <<"lacking">>, <<"unclear">>, <<"uncertain">>,
            Words(<<"not", "sure", "if">>), Words(<<"don't", "know", "if">>),
            <<"problem">>, <<"issue">>, <<"blocker">>, <<"stuck">> >>,
          phrases |-> <<
            Words(<<"we", "can't", "rely", "on">>),
            Words(<<"no", "way", "to">>),
            Words(<<"doesn't", "ensure">>),
            Words(<<"doesn't", "guarantee">>),
            Words(<<"uncertain", "whether">>),
            Words(<<"not", "sure", "if", "our">>) >> ],
       \* IDEA
        [ keywords |-> <<
            <<"could">>, Words(<<"should", "build">>),
            Words(<<"need", "a", "way">>),
            Words(<<"would", "be", "good", "to">>), <<"propose">>,
            <<"suggest">>, <<"recommend">>, <<"consider">>,
            Words(<<"what", "if">>), Words(<<"we", "could", "create">>),
            <<"automate">>, <<"improve">> >>,
          phrases |-> <<
            Words(<<"we", "need", "a", "way", "to">>),
            Words(<<"we", "could", "build">>),
            Words(<<"would", "be", "good", "to", "have">>),
            Words(<<"we", "should", "create">>),
            Words(<<"opportunity", "to">>),
            Words(<<"could", "improve", "by">>) >> ],
       \* DECISION
        [ keywords |-> <<
            Words(<<"should", "we">>), <<"decide">>,
            Words(<<"choose", "between">>), <<"options">>, <<"adopt">>,
            <<"reject">>, <<"trial">>, <<"evaluate">> >>,
          phrases |-> <<
            Words(<<"should", "we", "adopt">>),
            Words(<<"choose", "between">>),
            Words(<<"decide", "whether", "to">>),
            Words(<<"options", "are">>),
            <<"either", "/", "or">>,
            Words(<<"go", "with", "X", "or", "Y">>) >> ],
       \* LESSON
        [ keywords |-> <<
            <<"learned">>, <<"discovered">>, Words(<<"found", "out">>),
            <<"realized">>, Words(<<"turned", "out">>),
            Words(<<"it", "appears">>), <<"observation">> >>,
          phrases |-> <<
            Words(<<"we", "learned", "that">>),
            Words(<<"discovered", "that">>),
            Words(<<"found", "out", "that">>),
            Words(<<"turned", "out", "that">>),
            <<"key", " ", "insight", ":">>,
            <<"lesson", " ", "learned", ":">> >> ],
       \* TASK
        [ keywords |-> <<
            Words(<<"need", "to">>), <<"must">>, <<"should">>, <<"TODO">>,
            Words(<<"action", "item">>), Words(<<"follow", "up">>),
            <<"contact">>, Words(<<"reach", "out">>), <<"investigate">> >>,
          phrases |-> <<
            Words(<<"need", "to", "contact">>),
            Words(<<"must", "investigate">>),
            Words(<<"should", "reach", "out">>),
            Words(<<"follow", "up", "with">>),
            <<"next", " ", "step", ":">>,
            <<"action", ":">> >> ] >>

\* the atoms that begin with a capital letter, and their lower-case forms
Capitalised == {"It's", "We", "Should", "TODO", "X", "Y", "Critical"}

LowerAtom(a) ==
    CASE a = "It's" -> "it's"
      [] a = "We" -> "we"
      [] a = "Should" -> "should"
      [] a = "TODO" -> "todo"
      [] a = "X" -> "x"
      [] a = "Y" -> "y"
      [] a = "Critical" -> "critical"
      [] OTHER -> a

\* str.lower()
RECURSIVE Lower(_)
Lower(str) ==
    IF str = <<>> THEN <<>> ELSE <<LowerAtom(Head(str))>> \o Lower(Tail(str))

Whitespace == {" "}
Terminators == {".", "!", "?"}
Marks == {",", ":", "/"}

\* c.islower() of the first character of atom a
IsLower(a) == a \notin Capitalised \cup Whitespace \cup Terminators \cup Marks

\* the number of atoms at the start of str that are in S
RunLen(str, S) ==
    LET other == {i \in 1..Len(str) : str[i] \notin S}
    IN  IF other = {} THEN Len(str)
        ELSE (CHOOSE i \in other : \A j \in other : i <= j) - 1

Drop(str, n) == SubSeq(str, n + 1, Len(str))

\* str.strip()
Strip(str) ==
    LET inner == {i \in 1..Len(str) : str[i] \notin Whitespace}
    IN  IF inner = {} THEN <<>>
        ELSE SubSeq(str, CHOOSE i \in inner : \A j \in inner : i <= j,
                         CHOOSE i \in inner : \A j \in inner : i >= j)

\* x in str
Contains(str, x) ==
    \E i \in 0..(Len(str) - Len(x)) :
        str[i + 1] = x[1] /\ SubSeq(str, i + 1, i + Len(x)) = x

\* " ".join(strs)
RECURSIVE Join(_)
Join(strs) ==
    IF strs = <<>> THEN <<>>
    ELSE IF Len(strs) = 1 THEN strs[1]
    ELSE strs[1] \o <<" ">> \o Join(Tail(strs))

\* re.split(r'[.!?]+\s+', text): cur is the piece begun before rest
RECURSIVE ReSplit(_, _)
ReSplit(rest, cur) ==
    IF rest = <<>> THEN <<cur>>
    ELSE IF Head(rest) \in Terminators
    THEN LET run == RunLen(rest, Terminators)
             gap == RunLen(Drop(rest, run), Whitespace)
         IN  IF gap > 0
             THEN <<cur>> \o ReSplit(Drop(rest, run + gap), <<>>)
             ELSE ReSplit(Drop(rest, run), cur \o SubSeq(rest, 1, run))
    ELSE ReSplit(Tail(rest), Append(cur, Head(rest)))

\* [s.strip() for s in sentences if s.strip()]
RECURSIVE StripAll(_)
StripAll(pieces) ==
    IF pieces = <<>> THEN <<>>
    ELSE (IF Strip(Head(pieces)) # <<>> THEN <<Strip(Head(pieces))>> ELSE <<>>)
             \o StripAll(Tail(pieces))

_split_into_sentences(str) == StripAll(ReSplit(str, <<>>))

\* a matched signal: "keyword:<value>" or "phrase:<value>"
Tag(kind, value) == <<kind, value>>

\* the tags of the entries of catalog that are in sentence, in catalog order
RECURSIVE Matched(_, _, _)
Matched(sentence, kind, catalog) ==
    IF catalog = <<>> THEN <<>>
    ELSE (IF Contains(sentence, Head(catalog))
          THEN <<Tag(kind, Head(catalog))>> ELSE <<>>)
             \o Matched(sentence, kind, Tail(catalog))

\* every match counted once, keyword or phrase
ScoreFlat(sentence, signals) ==
    LET ks == Matched(sentence, "keyword", signals.keywords)
        ps == Matched(sentence, "phrase", signals.phrases)
    IN  <<Len(ks) + Len(ps), ks \o ps>>

\* _score_sentence: <<score, matched>>
_score_sentence(sentence, signals) ==
    LET ks == Matched(sentence, "keyword", signals.keywords)
        ps == Matched(sentence, "phrase", signals.phrases)
    IN  <<Len(ks) * 1 + Len(ps) * 2, ks \o ps>>

_get_context(sentences, index) ==
    Join( (IF index > 1 THEN <<sentences[index - 1]>> ELSE <<>>)
          \o <<sentences[index]>>
          \o (IF index < Len(sentences) THEN <<sentences[index + 1]>>
              ELSE <<>>) )

RECURSIVE Sum(_)
Sum(ns) == IF ns = <<>> THEN 0 ELSE Head(ns) + Sum(Tail(ns))

MaxOf(ns) == SetMax({ns[i] : i \in 1..Len(ns)})

\* the bands 0.7 and 0.5 taken from below
ConfidenceInclusive(ss) ==
    LET total == Sum(ss)
        max_score == MaxOf(ss)
    IN  IF total = 0 THEN 0
        ELSE IF 10 * max_score >= 7 * total THEN 9
        ELSE IF 10 * max_score >= 5 * total THEN 7
        ELSE 4

\* _calculate_confidence, in tenths; the scores stand in the order of
\* ItemTypes.  max_score / total > 0.7 is 10 * max_score > 7 * total.
_calculate_confidence(ss) ==
    LET total == Sum(ss)
        max_score == MaxOf(ss)
    IN  IF total = 0 THEN 0
        ELSE IF 10 * max_score > 7 * total THEN 9
        ELSE IF 10 * max_score > 5 * total THEN 7
        ELSE 4

\* the last of the types with the highest score
LastMaxType(ss) ==
    LET best == {i \in 1..Len(ss) : ss[i] = MaxOf(ss)}
    IN  CHOOSE i \in best : \A j \in best : i >= j

\* max(scores, key=scores.get): the first of the types with the highest score
MaxType(ss) ==
    LET best == {i \in 1..Len(ss) : ss[i] = MaxOf(ss)}
    IN  CHOOSE i \in best : \A j \in best : i <= j

GovernanceItem(type, str, context, score, conf, signals) ==
    [text |-> str, confidence |-> conf, type |-> type, signals |-> signals,
     context |-> context, score |-> score]

\* _score_sentence for each type, in the order of ItemTypes
ScoreAll(sentence_lower) ==
    << _score_sentence(sentence_lower, SIGNALS[1]),
       _score_sentence(sentence_lower, SIGNALS[2]),
       _score_sentence(sentence_lower, SIGNALS[3]),
       _score_sentence(sentence_lower, SIGNALS[4]),
       _score_sentence(sentence_lower, SIGNALS[5]) >>

\* the loop of analyze_text over the sentences from index i on
RECURSIVE Candidates(_, _)
Candidates(sentences, i) ==
    IF i > Len(sentences) THEN <<>>
    ELSE LET sentence == sentences[i]
             scored == ScoreAll(Lower(sentence))
             ss == <<scored[1][1], scored[2][1], scored[3][1], scored[4][1],
                     scored[5][1]>>
             matched_signals == <<scored[1][2], scored[2][2], scored[3][2],
                                  scored[4][2], scored[5][2]>>
             max_type == MaxType(ss)
             max_score == ss[max_type]
         IN  (IF max_score >= THRESHOLD
              THEN << GovernanceItem(
                        ItemTypes[max_type],
                        Strip(sentence),
                        _get_context(sentences, i),
                        max_score,
                        _calculate_confidence(ss),
                        matched_signals[max_type]) >>
              ELSE <<>>)
             \o Candidates(sentences, i + 1)

\* both conditions asked for
ContinuationStrict(text1, text2) ==
    /\ text2 # <<>> /\ IsLower(text2[1])
    /\ text1 # <<>> /\ Strip(text1)[Len(Strip(text1))] # "."

_is_continuation(text1, text2) ==
    IF text2 # <<>> /\ IsLower(text2[1]) THEN TRUE
    ELSE IF text1 # <<>> /\ Strip(text1)[Len(Strip(text1))] # "." THEN TRUE
    ELSE FALSE

\* the loop with the score of the later item kept on a merge
RECURSIVE MergeLoopLast(_, _, _)
MergeLoopLast(rest, current, merged) ==
    IF rest = <<>> THEN Append(merged, current)
    ELSE LET next_item == Head(rest)
         IN  IF current.type = next_item.type
                /\ _is_continuation(current.text, next_item.text)
             THEN MergeLoopLast(Tail(rest),
                      [current EXCEPT
                          !.text = current.text \o <<" ">> \o next_item.text,
                          !.context = current.context \o <<" ">>
                                          \o next_item.context,
                          !.score = next_item.score,
                          !.signals = current.signals \o next_item.signals],
                      merged)
             ELSE MergeLoopLast(Tail(rest), next_item, Append(merged, current))

\* the loop of _merge_related_items
RECURSIVE MergeLoop(_, _, _)
MergeLoop(rest, current, merged) ==
    IF rest = <<>> THEN Append(merged, current)
    ELSE LET next_item == Head(rest)
         IN  IF current.type = next_item.type
                /\ _is_continuation(current.text, next_item.text)
             THEN MergeLoop(Tail(rest),
                      [current EXCEPT
                          !.text = current.text \o <<" ">> \o next_item.text,
                          !.context = current.context \o <<" ">>
                                          \o next_item.context,
                          !.score = IF next_item.score > current.score
                                    THEN next_item.score ELSE current.score,
                          !.signals = current.signals \o next_item.signals],
                      merged)
             ELSE MergeLoop(Tail(rest), next_item, Append(merged, current))

_merge_related_items(its) ==
    IF Len(its) <= 1 THEN its ELSE MergeLoop(Tail(its), Head(its), <<>>)

\* the loop of _deduplicate
RECURSIVE DedupLoop(_, _)
DedupLoop(rest, seen_texts) ==
    IF rest = <<>> THEN <<>>
    ELSE LET normalized == Strip(Lower(Head(rest).text))
         IN  IF normalized \notin seen_texts
             THEN <<Head(rest)>>
                      \o DedupLoop(Tail(rest), seen_texts \cup {normalized})
             ELSE DedupLoop(Tail(rest), seen_texts)

\* the pass that keeps every item
KeepAll(its) == its

_deduplicate(its) == DedupLoop(its, {})

(***************************************************************************)
(* The inputs of the classifier.  A text is up to MaxChunks chunks, each a *)
(* body followed by ". " (the sentence ends here) or by "." alone (it ends *)
(* here only at the end of the text).                                      *)
(***************************************************************************)
Bodies ==
    { <<"It's", " ", "broken">>,
      Words(<<"We", "can't", "rely", "on", "this">>),
      Words(<<"we", "should", "create", "it">>) \o <<",", " ">>
          \o Words(<<"we", "could", "build", "it">>),
      <<"the", " ", "bug", "s", " ">>
          \o Words(<<"could", "improve", "the", "gap">>) }

Chunks == {b \o e : b \in Bodies, e \in {<<".", " ">>, <<".">>}}

RECURSIVE Concat(_)
Concat(strs) == IF strs = <<>> THEN <<>> ELSE Head(strs) \o Concat(Tail(strs))

Texts == {Concat(cs) : cs \in UNION {[1..n -> Chunks] : n \in 0..MaxChunks}}

\* The merge and dedup passes on their own: the items of up to MaxItems
\* sentences, among them sentences that end with a period, and two
\* sentences next to the sentence they make when joined by a blank.
UnitSentences ==
    { Words(<<"We", "can't", "rely", "on", "this">>) \o <<".">>,
      Words(<<"We", "can't", "rely", "on", "this">>),
      Words(<<"we", "can't", "rely", "on", "this">>) \o <<".">>,
      Words(<<"Should", "we", "adopt", "it">>) \o <<".">>,
      Words(<<"We", "could", "build", "it">>) \o <<",", " ">>
          \o Words(<<"no", "way">>),
      Words(<<"to", "fix", "the", "bug", "we", "could", "build", "it">>),
      Words(<<"We", "could", "build", "it">>) \o <<",", " ">>
          \o Words(<<"no", "way", "to", "fix", "the", "bug", "we", "could",
                     "build", "it">>) }

ItemLists ==
    {Candidates(ss, 1) : ss \in UNION {[1..n -> UnitSentences] : n \in 0..MaxItems}}

ScoreVectors == [1..Len(ItemTypes) -> 0..MaxScore]

\* the store is not in use
NoStore ==
    /\ disk = <<>>
    /\ path = [t \in Types |-> NoIno]
    /\ temps = {}
    /\ pc = [p \in Procs |-> "idle"]
    /\ op = [p \in Procs |-> NoOp]
    /\ fd = [p \in Procs |-> NoIno]
    /\ held = [p \in Procs |-> FALSE]
    /\ buf = [p \in Procs |-> <<>>]
    /\ tmp = [p \in Procs |-> NoIno]
    /\ res = [p \in Procs |-> NoRes]
    /\ nfaults = 0
    /\ returned = {}

storevars == <<disk, path, temps, pc, op, fd, held, buf, tmp, res, nfaults,
               returned>>

InitClassifier ==
    /\ NoStore
    /\ confidence = 0
    /\ priority = ""
    /\ \/ /\ text \in Texts
          /\ scores = <<>> /\ items = <<>> /\ apc = "sentences"
       \/ /\ items \in ItemLists
          /\ text = <<>> /\ scores = <<>> /\ apc = "merge"
       \/ /\ scores \in ScoreVectors
          /\ text = <<>> /\ items = <<>> /\ apc = "confidence"

\* analyze_text up to the end of the loop over the sentences
AnalyzeSentences ==
    /\ apc = "sentences"
    /\ items' = Candidates(_split_into_sentences(text), 1)
    /\ apc' = "merge"
    /\ UNCHANGED <<text, scores, confidence, priority>>
    /\ UNCHANGED storevars

\* items = self._merge_related_items(items)
AnalyzeMerge ==
    /\ apc = "merge"
    /\ items' = _merge_related_items(items)
    /\ apc' = "dedup"
    /\ UNCHANGED <<text, scores, confidence, priority>>
    /\ UNCHANGED storevars

\* items = self._deduplicate(items); return items
AnalyzeDedup ==
    /\ apc = "dedup"
    /\ items' = _deduplicate(items)
    /\ apc' = "done"
    /\ UNCHANGED <<text, scores, confidence, priority>>
    /\ UNCHANGED storevars

\* _calculate_confidence(scores) on its own
CalcConfidence ==
    /\ apc = "confidence"
    /\ confidence' = _calculate_confidence(scores)
    /\ apc' = "done"
    /\ UNCHANGED <<text, scores, items, priority>>
    /\ UNCHANGED storevars

NextClassifier ==
    \/ AnalyzeSentences
    \/ AnalyzeMerge
    \/ AnalyzeDedup
    \/ CalcConfidence

SpecClassifier == InitClassifier /\ [][NextClassifier]_vars

(***************************************************************************)
(* suggest_priority_or_severity.  It reads item.text only; the variable    *)
(* text is that field.                                                     *)
(***************************************************************************)
high_signals ==
    << <<"critical">>, <<"blocking">>, <<"broken">>, <<"fails">>, <<"error">>,
       <<"urgent">>, <<"immediately">>, <<"must">> >>

low_signals ==
    << Words(<<"nice", "to", "have">>), <<"eventually">>, <<"minor">>,
       <<"small">>, <<"trivial">>, <<"cosmetic">> >>

\* any(sig in str for sig in sigs)
AnyIn(sigs, str) == \E i \in 1..Len(sigs) : Contains(str, sigs[i])

\* the low-urgency words are looked for first
LowBeforeHigh(item_text) ==
    LET text_lower == Lower(item_text)
    IN  IF AnyIn(low_signals, text_lower) THEN "LOW"
        ELSE IF AnyIn(high_signals, text_lower) THEN "HIGH"
        ELSE "MEDIUM"

suggest_priority_or_severity(item_text) ==
    LET text_lower == Lower(item_text)
    IN  IF AnyIn(high_signals, text_lower) THEN "HIGH"
        ELSE IF AnyIn(low_signals, text_lower) THEN "LOW"
        ELSE "MEDIUM"

\* The item texts: up to MaxChunks chunks, among them a high-urgency word
\* with a capital letter, one inside a longer word, a low-urgency word, the
\* low-urgency phrase and its first word alone.
PriorityChunks ==
    { <<"Critical">>, <<"error", "s">>, <<"must">>, <<"minor">>,
      Words(<<"nice", "to", "have">>), <<"nice">>, <<" ">>, <<"later">> }

PriorityTexts ==
    {Concat(cs) : cs \in UNION {[1..n -> PriorityChunks] : n \in 0..MaxChunks}}

InitPriority ==
    /\ NoStore
    /\ text \in PriorityTexts
    /\ scores = <<>> /\ items = <<>> /\ confidence = 0
    /\ priority = ""
    /\ apc = "priority"

SuggestPriority ==
    /\ apc = "priority"
    /\ priority' = suggest_priority_or_severity(text)
    /\ apc' = "suggested"
    /\ UNCHANGED <<text, scores, items, confidence>>
    /\ UNCHANGED storevars

NextPriority == SuggestPriority

SpecPriority == InitPriority /\ [][NextPriority]_vars

(***************************************************************************)
(* What the claims speak of.                                               *)
(***************************************************************************)
\* the positions of the record blocks of a content
RecordsAt(content) == {i \in 1..Len(content) : content[i].k = "rec"}

\* the record block of call o stands in the backing file
BlockPresent(o) ==
    \E i \in RecordsAt(Visible(o.type)) :
        Visible(o.type)[i].id = o.id /\ Visible(o.type)[i].t = o.title

\* the number of record blocks titled by call o in the backing file
BlocksOf(o) ==
    Cardinality({i \in RecordsAt(Visible(o.type)) : Visible(o.type)[i].t = o.title})

NoHeading(content) ==
    \A i \in 1..Len(content) : content[i].k \notin {"anchor", "anchorx"}

InInsert(p) ==
    pc[p] \in {"ins_read", "aw_mkstemp", "aw_write", "aw_replace", "ins_unlock"}

\* the value of a digit string, most significant digit first
RECURSIVE DecValue(_)
DecValue(ds) ==
    IF ds = <<>> THEN 0 ELSE ds[1] * 10 ^ (Len(ds) - 1) + DecValue(Tail(ds))

(***************************************************************************)
(* C1.  No lost insert: once an insert call has returned success, the      *)
(* record block it wrote is in the backing file, whatever calls follow.    *)
(* The store breaks this: an insert that opened the file before an earlier *)
(* insert renamed its new file over the path locks and reads the old       *)
(* inode, and its own rename drops the earlier record.                     *)
(***************************************************************************)
C1_NoLostInsert == \A o \in returned : BlockPresent(o)

(***************************************************************************)
(* C2.  Mutual exclusion: no two processes are at once between lock        *)
(* acquisition and lock release of an insert on the same path.  The store  *)
(* breaks this: after the rename the path names a new inode, whose lock is *)
(* free while the renaming process still holds the lock of the old one.    *)
(***************************************************************************)
C2_MutualExclusion ==
    \A p, q \in Procs :
        (p # q /\ InInsert(p) /\ InInsert(q) /\ held[p] /\ held[q])
            => op[p].type # op[q].type

(***************************************************************************)
(* C3.  Identifier uniqueness: no two record blocks of a backing file      *)
(* carry the same identifier.  The store breaks this: the collision        *)
(* re-check runs before the lock is taken, so two inserts of one           *)
(* identifier both pass it.                                                *)
(***************************************************************************)
C3_UniqueIds ==
    \A t \in Types : \A i, j \in RecordsAt(Visible(t)) :
        i # j => Visible(t)[i].id # Visible(t)[j].id

(***************************************************************************)
(* C4.  Concurrent captures: when every process has run one capture on the *)
(* same backing file (which has its heading), each capture has returned    *)
(* its identifier, the file holds one record per capture under that        *)
(* identifier, and the identifiers are pairwise distinct.  The store       *)
(* breaks this: two captures are handed the same identifier.               *)
(***************************************************************************)
C4_CapturesDistinct ==
    \A t \in InsertTypes :
        ( /\ \A p \in Procs :
                pc[p] = "done" /\ op[p].name = "capture" /\ op[p].type = t
          /\ ~NoHeading(Visible(t)) )
        => /\ \A p \in Procs :
                /\ res[p].kind = "ok"
                /\ BlocksOf(op[p]) = 1
                /\ BlockPresent(op[p])
                /\ res[p].id = op[p].id
           /\ \A p, q \in Procs : p # q => res[p].id # res[q].id

(***************************************************************************)
(* C5.  Next-available-ID metadata: after a successful insert_idea the     *)
(* "next available" identifier of the header is the largest record number  *)
(* of the file plus one.  The store breaks this: it writes the inserted    *)
(* identifier plus one, whatever the file holds.                           *)
(***************************************************************************)
C5_NextAvailable ==
    (\E o \in returned : o.type = "IDEAS")
        => LET content == Visible("IDEAS")
               nums == {DecValue(content[i].id.ds) : i \in RecordsAt(content)}
           IN  \A i \in 1..Len(content) :
                   (content[i].k = "total" /\ content[i].fl = "next")
                       => DecValue(content[i].id.ds) = SetMax(nums) + 1

(***************************************************************************)
(* C6.  Atomic visibility: the content a reader finds under a backing-file *)
(* path changes only in the rename of an insert, and then to the complete  *)
(* document that insert built; before it the reader finds the complete     *)
(* earlier content, never the temporary file's.                            *)
(***************************************************************************)
C6_AtomicVisibility ==
    [][\A t \in Types :
          Visible(t)' # Visible(t)
              => \E p \in Procs :
                    /\ pc[p] = "aw_replace" /\ pc'[p] = "ins_unlock"
                    /\ op[p].type = t
                    /\ Visible(t)' = buf[p]
                    /\ BlockPresent(op[p])']_vars

\* an insert has created its temporary file and not written it, while the
\* path still gives the whole earlier file
C6_Witness ==
    \E p \in Procs :
        /\ pc[p] = "aw_write"
        /\ disk[tmp[p]] = <<>>
        /\ Visible(op[p].type) \in {SoundIdeas, SoundIssues}

(***************************************************************************)
(* C7.  Crash safety: no step of atomic_write before the rename, and no    *)
(* interruption of the process inside atomic_write, changes the content    *)
(* under any backing-file path; only the temporary file may stay behind.   *)
(***************************************************************************)
C7_CrashSafety ==
    [][\A p \in Procs :
          ( /\ pc[p] \in {"aw_mkstemp", "aw_write", "aw_replace"}
            /\ pc'[p] # pc[p]
            /\ pc'[p] \in {"aw_write", "aw_replace", "dead"} )
          => \A t \in Types : Visible(t)' = Visible(t)]_vars

\* a process was killed after it wrote its temporary file: the file is
\* orphaned, and the backing file is the one of the start
C7_Witness ==
    \E p \in Procs :
        /\ pc[p] = "dead"
        /\ op[p].name = "insert"
        /\ \A q \in Procs : q # p => pc[q] = "idle"
        /\ \E i \in temps : disk[i] # <<>> /\ disk[i] # Visible(op[p].type)
        /\ Visible(op[p].type) \in {SoundIdeas, SoundIssues}

(***************************************************************************)
(* C8.  Missing anchor: an insert that reads a file without its section    *)
(* heading ends with a GovernanceFileError that names the heading, has     *)
(* created no temporary file and renamed nothing, leaves every file as it  *)
(* was, and no longer holds the lock.                                      *)
(***************************************************************************)
C8_MissingAnchor ==
    [][\A p \in Procs :
          (pc[p] = "ins_read" /\ pc'[p] # "ins_read" /\ NoHeading(disk[fd[p]]))
          => /\ pc'[p] \in {"done", "dead"}
             /\ pc'[p] = "done" =>
                    res'[p] = Res("GovernanceFileError", NoId,
                                  IF op[p].type = "IDEAS"
                                  THEN "## Active Ideas" ELSE "## Open Issues")
             /\ ~held'[p]
             /\ UNCHANGED <<disk, path, temps>>]_vars

C8_Witness ==
    \E p \in Procs :
        /\ pc[p] = "done"
        /\ op[p].name = "insert"
        /\ res[p].kind = "GovernanceFileError"
        /\ res[p].msg = "## Open Issues"
        /\ NoHeading(Visible("ISSUES"))
        /\ temps = {}

(***************************************************************************)
(* C9.  Collision rejection: an insert whose identifier is that of a       *)
(* record of the backing file ends in its re-check with IDCollisionError   *)
(* carrying the identifier; it has opened and locked nothing and every     *)
(* file is as it was.                                                      *)
(***************************************************************************)
C9_CollisionRejected ==
    [][\A p \in Procs :
          ( /\ pc[p] = "ins_check" /\ pc'[p] # "ins_check"
            /\ \E i \in RecordsAt(Visible(op[p].type)) :
                  Visible(op[p].type)[i].id = op[p].id )
          => /\ pc'[p] = "done"
             /\ res'[p].kind = "IDCollisionError"
             /\ res'[p].id = op[p].id
             /\ fd[p] = NoIno /\ fd'[p] = NoIno
             /\ ~held[p] /\ ~held'[p]
             /\ UNCHANGED <<disk, path, temps>>]_vars

C9_Witness ==
    \E p \in Procs :
        /\ pc[p] = "done"
        /\ op[p].name = "insert"
        /\ res[p] = Res("IDCollisionError", MkId("IDEA", <<0, 0, 1>>),
                        "ID already exists")

(***************************************************************************)
(* C10.  get_next_id result: the identifier returned for a file is the     *)
(* type's prefix with the number m + 1, m the largest number among the     *)
(* <prefix>-<digits> occurrences of the file in whatever order (0 when     *)
(* there is none), written with at least three digits and no more zeros    *)
(* in front than that takes.                                               *)
(***************************************************************************)
C10_NextIdResult ==
    \A p \in Procs :
        (pc[p] = "done" /\ op[p].name = "get_next_id" /\ res[p].kind = "ok")
        => LET content == Visible(op[p].type)
               prefix == IF op[p].type = "IDEAS" THEN "IDEA"
                         ELSE IF op[p].type = "ISSUES" THEN "ISSUE" ELSE "DEC"
               nums == {DecValue(content[i].id.ds) :
                           i \in {j \in 1..Len(content) :
                                     content[j].id.pfx = prefix}}
               m == IF nums = {} THEN 0 ELSE SetMax(nums)
               ds == res[p].id.ds
           IN  /\ res[p].id.pfx = prefix
               /\ DecValue(ds) = m + 1
               /\ Len(ds) >= 3
               /\ Len(ds) > 3 => ds[1] # 0

\* IDEA-007, IDEA-001, IDEA-003 in this order give IDEA-008
C10_Witness ==
    /\ pc[1] = "done"
    /\ op[1] = Op("get_next_id", "IDEAS", NoId, 0)
    /\ disk[1] = <<RecTok(MkId("IDEA", <<0, 0, 7>>), 0, ""),
                   RefTok(MkId("IDEA", <<0, 0, 1>>), ""),
                   RecTok(MkId("IDEA", <<0, 0, 3>>), 0, "")>>
    /\ res[1] = Res("ok", MkId("IDEA", <<0, 0, 8>>), "")

(***************************************************************************)
(* C11.  Word-boundary exactness: check_id_collision, having read the      *)
(* file, answers that the identifier exists exactly when the file holds    *)
(* it as a complete token, with no word character before or after it; an   *)
(* identifier that only begins a longer one (IDEA-1 in IDEA-10, IDEA-100)  *)
(* does not exist.                                                         *)
(***************************************************************************)
CompleteToken(item_id, content) ==
    \E i \in 1..Len(content) :
        /\ content[i].id.pfx = item_id.pfx
        /\ Len(content[i].id.ds) = Len(item_id.ds)
        /\ \A k \in 1..Len(item_id.ds) : content[i].id.ds[k] = item_id.ds[k]
        /\ content[i].fl # "pre"
        /\ content[i].fl # "post"

C11_WordBoundary ==
    \A p \in Procs :
        ( /\ pc[p] = "done" /\ op[p].name = "check_id_collision"
          /\ path[op[p].type] # NoIno /\ nfaults = 0 )
        => /\ res[p].kind \in {"EXISTS", "AVAILABLE"}
           /\ res[p].kind = "EXISTS"
                  <=> CompleteToken(op[p].id, Visible(op[p].type))

\* IDEA-1 asked of a file holding IDEA-10 and IDEA-100 only
C11_Witness ==
    /\ pc[1] = "done"
    /\ op[1] = Op("check_id_collision", "IDEAS", MkId("IDEA", <<1>>), 0)
    /\ disk[1] = <<RefTok(MkId("IDEA", <<1, 0>>), ""),
                   RefTok(MkId("IDEA", <<1, 0, 0>>), "")>>
    /\ res[1].kind = "AVAILABLE"

Rank(at) ==
    CASE at = "idle" -> 0
      [] at = "gni_open" -> 1
      [] at = "gni_lock" -> 2
      [] at = "gni_read" -> 3
      [] at = "ins_check" -> 4
      [] at = "ins_open" -> 5
      [] at = "ins_lock" -> 6
      [] at = "ins_read" -> 7
      [] at = "aw_mkstemp" -> 8
      [] at = "aw_write" -> 9
      [] at = "aw_replace" -> 10
      [] at = "ins_unlock" -> 11
      [] at = "done" -> 12

\* the error a capture may end with when it leaves the store at this step
ErrorsAt(at) ==
    CASE at \in {"gni_open", "ins_open"} ->
            {"GovernanceFileNotFoundError", "GovernanceFileError"}
      [] at \in {"gni_read", "ins_read", "aw_write", "aw_replace"} ->
            {"GovernanceFileError"}
      [] at = "ins_check" -> {"IDCollisionError"}
      [] at = "aw_mkstemp" -> {"OSError"}
      [] OTHER -> {}

\* id is <prefix>-<m + 1>, m the largest number after the prefix in content
IsNextIdFor(id, item_type, content) ==
    LET prefix == IF item_type = "IDEAS" THEN "IDEA" ELSE "ISSUE"
        nums == {DecValue(content[i].id.ds) :
                    i \in {j \in 1..Len(content) : content[j].id.pfx = prefix}}
    IN  /\ id.pfx = prefix
        /\ DecValue(id.ds) = (IF nums = {} THEN 0 ELSE SetMax(nums)) + 1

C13_CaptureComposition ==
    [][\A p \in Procs :
          (op'[p].name = "capture" /\ pc'[p] # pc[p])
          => /\ Rank(pc'[p]) > Rank(pc[p])
             /\ pc[p] = "gni_read" /\ pc'[p] # "done"
                    => /\ pc'[p] = "ins_check"
                       /\ IsNextIdFor(op'[p].id, op[p].type, disk[fd[p]])
             /\ Rank(pc[p]) >= 4 => op'[p] = op[p]
             /\ pc'[p] = "ins_unlock" => BlockPresent(op[p])'
             /\ pc'[p] = "done"
                    => IF pc[p] = "ins_unlock"
                       THEN res'[p].kind = "ok" /\ res'[p].id = op[p].id
                       ELSE res'[p].kind \in ErrorsAt(pc[p])]_vars

\* one capture has written IDEA-009 and returned it; the other, handed the
\* same identifier, has ended with the collision error
C13_Witness ==
    \E p, q \in Procs :
        /\ pc[p] = "done" /\ op[p].name = "capture"
        /\ res[p] = Res("ok", MkId("IDEA", <<0, 0, 9>>), "")
        /\ BlockPresent(op[p])
        /\ pc[q] = "done" /\ op[q].name = "capture"
        /\ res[q].kind = "IDCollisionError"
        /\ res[q].id = MkId("IDEA", <<0, 0, 9>>)

(***************************************************************************)
(* The classifier.                                                         *)
(***************************************************************************)
\* the score of a sentence for the type at place t of the catalog order
TypeScore(sentence, t) == _score_sentence(Lower(sentence), SIGNALS[t])[1]

\* the matched list of a sentence for the type at place t
TypeSignals(sentence, t) == _score_sentence(Lower(sentence), SIGNALS[t])[2]

\* the highest of the five scores of a sentence
TopScore(sentence) ==
    CHOOSE n \in {TypeScore(sentence, t) : t \in 1..5} :
        \A t \in 1..5 : TypeScore(sentence, t) <= n

\* the k-th smallest member of a set of numbers
Nth(S, k) == CHOOSE i \in S : Cardinality({j \in S : j <= i}) = k

SentenceScores(sentence) ==
    <<TypeScore(sentence, 1), TypeScore(sentence, 2), TypeScore(sentence, 3),
      TypeScore(sentence, 4), TypeScore(sentence, 5)>>

\* confidence c, in tenths, is the band of the ratio max_score / total:
\* ratio > 0.7 is 10 * max_score > 7 * total
InBand(c, max_score, total) ==
    /\ 10 * max_score > 7 * total => c = 9
    /\ 10 * max_score <= 7 * total /\ 10 * max_score > 5 * total => c = 7
    /\ 10 * max_score <= 5 * total => c = 4

\* C15: Confidence rule.  With ratio = max_score / total over the five
\* scores (total above 0), _calculate_confidence gives 0.9 when ratio > 0.7,
\* 0.7 when 0.5 < ratio <= 0.7 and 0.4 otherwise; a candidate carries the
\* confidence of its sentence's scores, and every item of analyze_text has
\* a confidence among 0.9, 0.7 and 0.4.
C15_ConfidenceRule ==
    [][ /\ (apc = "confidence" /\ apc' = "done" /\ Sum(scores) > 0) =>
              InBand(confidence', MaxOf(scores), Sum(scores))
        /\ (apc = "sentences" /\ apc' = "merge") =>
              LET sentences == _split_into_sentences(text)
                  emitted == {i \in 1..Len(sentences) :
                                  TopScore(sentences[i]) >= 2}
              IN  \A k \in 1..Len(items') :
                      LET ss == SentenceScores(sentences[Nth(emitted, k)])
                      IN  InBand(items'[k].confidence, MaxOf(ss), Sum(ss))
        /\ \A k \in 1..Len(items') : items'[k].confidence \in {9, 7, 4}
      ]_vars

\* the ratio 7 / 10 falls in the band of 0.7
C15_Witness ==
    /\ apc = "done"
    /\ scores = <<7, 3, 0, 0, 0>>
    /\ confidence = 7

\* the sum of the weights of a signals list: 1 for a keyword tag, 2 for a
\* phrase tag
RECURSIVE SignalWeight(_)
SignalWeight(signals) ==
    IF signals = <<>> THEN 0
    ELSE (IF Head(signals)[1] = "phrase" THEN 2 ELSE 1)
             + SignalWeight(Tail(signals))

\* the texts, the contexts, the signals and the highest score of the items
\* at the places i..j of a list
RECURSIVE RunText(_, _, _)
RunText(its, i, j) ==
    IF i = j THEN its[i].text
    ELSE its[i].text \o <<" ">> \o RunText(its, i + 1, j)

RECURSIVE RunContext(_, _, _)
RunContext(its, i, j) ==
    IF i = j THEN its[i].context
    ELSE its[i].context \o <<" ">> \o RunContext(its, i + 1, j)

RECURSIVE RunSignals(_, _, _)
RunSignals(its, i, j) ==
    IF i = j THEN its[i].signals
    ELSE its[i].signals \o RunSignals(its, i + 1, j)

RunScore(its, i, j) ==
    CHOOSE n \in {its[k].score : k \in i..j} : \A k \in i..j : its[k].score <= n

\* C16 as stated: every item analyze_text returns, a merged one too, has
\* the sum of the weights of its signals as its score.
C16_ScoreIsSignalSum ==
    apc = "done" /\ text # <<>> =>
        \A k \in 1..Len(items) : items[k].score = SignalWeight(items[k].signals)

\* C16 as amended: every candidate has the sum of the weights of its
\* signals as its score.  The merge pass hands an item on as it is, or
\* makes of two or more adjacent items one item with the highest of their
\* scores and all of their signals, whose score is then below the sum of
\* the weights of its signals.  The dedup pass changes no item.  So a
\* returned item's score is the sum of its signals' weights when it was not
\* merged and less than that sum when it was.
C16_ScoreOfSignals ==
    [][ /\ (apc = "sentences" /\ apc' = "merge") =>
              \A k \in 1..Len(items') :
                  items'[k].score = SignalWeight(items'[k].signals)
        /\ (apc = "merge" /\ apc' = "dedup") =>
              \A k \in 1..Len(items') :
                  \/ /\ \E j \in 1..Len(items) : items'[k] = items[j]
                     /\ items'[k].score = SignalWeight(items'[k].signals)
                  \/ \E i \in 1..Len(items) : \E j \in (i + 1)..Len(items) :
                        /\ items'[k].text = RunText(items, i, j)
                        /\ items'[k].score = RunScore(items, i, j)
                        /\ items'[k].signals = RunSignals(items, i, j)
                        /\ items'[k].score < SignalWeight(items'[k].signals)
        /\ (apc = "dedup" /\ apc' = "done") =>
              \A k \in 1..Len(items') : \E j \in 1..Len(items) :
                  items'[k] = items[j]
        /\ \A k \in 1..Len(items') :
              items'[k].score <= SignalWeight(items'[k].signals)
      ]_vars

\* "We can't rely on this. We can't rely on this. ": the two sentences are
\* merged into one item of score 2 with two phrase tags
C16_Witness ==
    /\ apc = "done"
    /\ text = Words(<<"We", "can't", "rely", "on", "this">>) \o <<".", " ">>
                \o Words(<<"We", "can't", "rely", "on", "this">>) \o <<".", " ">>
    /\ Len(items) = 1
    /\ items[1].score = 2
    /\ SignalWeight(items[1].signals) = 4

\* the item at place j + 1 of a list continues the item at place j: both
\* have the same type, and the later text starts with a lower-case
\* character or the earlier text does not end with a period
Continues(its, j) ==
    /\ its[j].type = its[j + 1].type
    /\ \/ IsLower(its[j + 1].text[1])
       \/ its[j].text[Len(its[j].text)] # "."

\* the places of a list where a new item of the merge pass begins
GroupStarts(its) ==
    {j \in 1..Len(its) : j = 1 \/ ~Continues(its, j - 1)}

\* the last place of the group that begins at place i
GroupEnd(its, i) ==
    LET later == {j \in GroupStarts(its) : j > i}
    IN  IF later = {} THEN Len(its)
        ELSE (CHOOSE j \in later : \A l \in later : j <= l) - 1

\* C17: Merge pass.  Going through the items in their order, the next item
\* is merged into the current one exactly when both have the same type and
\* the next item's text starts with a lower-case character or the current
\* item's text does not end with a period.  A merged item has the texts
\* joined by one space in the original order, the contexts joined, the
\* highest of the scores (not their sum) and the signals lists one after
\* the other; every other item passes through as it is, in order.
C17_MergePass ==
    [][ (apc = "merge" /\ apc' = "dedup") =>
          LET starts == GroupStarts(items)
          IN  /\ Len(items') = Cardinality(starts)
              /\ \A k \in 1..Len(items') :
                   LET i == Nth(starts, k)
                       j == GroupEnd(items, i)
                   IN  IF i = j THEN items'[k] = items[i]
                       ELSE /\ items'[k].type = items[i].type
                            /\ items'[k].text = RunText(items, i, j)
                            /\ items'[k].context = RunContext(items, i, j)
                            /\ items'[k].score = RunScore(items, i, j)
                            /\ items'[k].signals = RunSignals(items, i, j)
                            /\ items'[k].confidence = items[i].confidence
      ]_vars

\* two adjacent IDEA sentences, the second beginning with a lower-case
\* letter, have become one item
C17_Witness ==
    LET idea == Words(<<"we", "should", "create", "it">>) \o <<",", " ">>
                    \o Words(<<"we", "could", "build", "it">>)
    IN  /\ apc = "dedup"
        /\ text = idea \o <<".", " ">> \o idea \o <<".">>
        /\ Len(items) = 1
        /\ items[1].type = "IDEA"
        /\ items[1].text = idea \o <<" ">> \o idea \o <<".">>
        /\ items[1].score = 5
        /\ Len(items[1].signals) = 6

\* the text of an item as the dedup pass compares it
Normalized(item) == Strip(Lower(item.text))

\* the places of a list whose normalized text stands at no earlier place
FirstPlaces(its) ==
    {i \in 1..Len(its) :
        \A j \in 1..(i - 1) : Normalized(its[j]) # Normalized(its[i])}

\* C18: Dedup pass.  The output of _deduplicate is its input cut down to
\* the first item of every lower-cased trimmed text, in the original
\* order; no two items of the output have the same normalized text, and a
\* second pass over the output changes nothing.
C18_DedupPass ==
    [][ (apc = "dedup" /\ apc' = "done") =>
          LET first == FirstPlaces(items)
          IN  /\ Len(items') = Cardinality(first)
              /\ \A k \in 1..Len(items') : items'[k] = items[Nth(first, k)]
              /\ \A k \in 1..Len(items') : \A l \in 1..Len(items') :
                     Normalized(items'[k]) = Normalized(items'[l]) => k = l
              /\ FirstPlaces(items') = 1..Len(items')
              /\ _deduplicate(items') = items'
      ]_vars

\* three ISSUE candidates that the merge pass leaves apart, the first and
\* the third with the same text but for the case of a letter: two are kept
C18_Witness ==
    LET upper == Words(<<"We", "can't", "rely", "on", "this">>) \o <<".">>
        lower == Words(<<"we", "can't", "rely", "on", "this">>) \o <<".">>
    IN  /\ apc = "done"
        /\ text = <<>>
        /\ Len(items) = 2
        /\ items[1].text = upper
        /\ items[2].type = "DECISION"
        /\ ~ \E k \in 1..Len(items) : items[k].text = lower

\* str holds a keyword and a phrase of the ISSUE catalog
HasIssueSignals(str) ==
    /\ \E n \in 1..Len(SIGNALS[1].keywords) :
           Contains(Lower(str), SIGNALS[1].keywords[n])
    /\ \E n \in 1..Len(SIGNALS[1].phrases) :
           Contains(Lower(str), SIGNALS[1].phrases[n])

\* an ISSUE item with the score of a keyword and a phrase
StrongIssue(item) ==
    /\ item.type = "ISSUE"
    /\ item.score >= 1 + 2
    /\ item.confidence \in {4, 7, 9}

\* C19 as stated: for every text that holds a keyword and a phrase of the
\* ISSUE catalog, analyze_text returns at least one ISSUE item whose score
\* is at least 1 + 2 = 3 and whose confidence is 0.4, 0.7 or 0.9.
C19_IssueOfText ==
    (apc = "done" /\ text # <<>> /\ HasIssueSignals(text)) =>
        \E k \in 1..Len(items) : StrongIssue(items[k])

\* a sentence of the text that holds a keyword and a phrase of the ISSUE
\* catalog and scores for no type more than for ISSUE
IssueSentences(sentences) ==
    {i \in 1..Len(sentences) :
        /\ HasIssueSignals(sentences[i])
        /\ \A t \in 1..5 :
               TypeScore(sentences[i], t) <= TypeScore(sentences[i], 1)}

\* C19 as amended: for every text with a sentence that holds a keyword and
\* a phrase of the ISSUE catalog and scores for no other type more than
\* for ISSUE, the candidate of that sentence is an ISSUE item whose score
\* is at least 1 + 2 = 3 and whose confidence is 0.4, 0.7 or 0.9; the merge
\* pass keeps it within an ISSUE item of such a score, and analyze_text
\* returns such an item unless the dedup pass drops it for an earlier item
\* with the same normalized text.
C19_IssueOfSentence ==
    [][ /\ (apc = "sentences" /\ apc' = "merge") =>
              LET sentences == _split_into_sentences(text)
              IN  \A i \in IssueSentences(sentences) :
                      \E k \in 1..Len(items') :
                          /\ items'[k].text = sentences[i]
                          /\ StrongIssue(items'[k])
        /\ (apc = "merge" /\ apc' = "dedup") =>
              \A j \in 1..Len(items) :
                  StrongIssue(items[j]) =>
                      \E k \in 1..Len(items') :
                          /\ StrongIssue(items'[k])
                          /\ Contains(items'[k].text, items[j].text)
        /\ (apc = "dedup" /\ apc' = "done") =>
              /\ \A j \in 1..Len(items) :
                     StrongIssue(items[j]) =>
                         \/ \E k \in 1..Len(items') : items'[k] = items[j]
                         \/ \E i \in 1..(j - 1) :
                                Normalized(items[i]) = Normalized(items[j])
              /\ IssueSentences(_split_into_sentences(text)) # {} =>
                     \/ \E k \in 1..Len(items') : StrongIssue(items'[k])
                     \/ \E j \in 1..Len(items) : \E i \in 1..(j - 1) :
                            /\ StrongIssue(items[j])
                            /\ Normalized(items[i]) = Normalized(items[j])
      ]_vars

\* "It's broken.We can't rely on this. ": one sentence with the keyword and
\* the phrase, returned as an ISSUE item of score 3
C19_Witness ==
    /\ apc = "done"
    /\ text = <<"It's", " ", "broken", ".">>
                \o Words(<<"We", "can't", "rely", "on", "this">>) \o <<".", " ">>
    /\ Len(items) = 1
    /\ StrongIssue(items[1])
    /\ items[1].score = 3

(***************************************************************************)
(* C20.  Reads under the lock: every read of a backing file by            *)
(* get_next_id and by insert, the collision re-check of insert among      *)
(* them, is made while the reading process holds the exclusive lock of    *)
(* that file; the store decides on no content it read without the lock.   *)
(* The store breaks this: check_id_collision opens and reads the file     *)
(* without flock, and insert decides on that content whether to go on.    *)
(***************************************************************************)
C20_ReadsUnderLock ==
    [][ \A p \in Procs :
          ( /\ pc[p] \in {"gni_read", "ins_check", "ins_read"}
            /\ pc'[p] # pc[p]
            /\ path[op[p].type] # NoIno )
              => (held[p] /\ fd[p] = path[op[p].type]) ]_vars

(***************************************************************************)
(* C21.  Splice position: when insert_idea / insert_issue has returned     *)
(* success on a file that holds the anchor text, the new record block      *)
(* stands in the resulting file exactly once, right after the anchor       *)
(* heading, and check_id_collision finds the inserted identifier; and      *)
(* this for every file that passes the anchor test, with one anchor or     *)
(* several, whatever follows the anchor text on its line.  The store       *)
(* breaks this: the test looks for the heading text, the splice for the    *)
(* heading text followed by a newline, once for every place it stands.     *)
(***************************************************************************)
C21_SplicePosition ==
    \A p \in Procs :
        (pc[p] = "done" /\ op[p].name = "insert" /\ res[p].kind = "ok")
        => LET content == Visible(op[p].type)
               mine == {i \in RecordsAt(content) :
                           content[i].id = op[p].id /\ content[i].t = op[p].title}
           IN  /\ Cardinality(mine) = 1
               /\ \A i \in mine :
                      i > 1 /\ content[i - 1].k \in {"anchor", "anchorx"}
               /\ CompleteToken(op[p].id, content)

(***************************************************************************)
(* C22.  Count metadata: after k successful insert_idea calls, one after   *)
(* the other or at once, on a file whose header read "Total Ideas: n",     *)
(* the header reads "Total Ideas: n + k"; after a successful insert_issue  *)
(* the number of "Summary: <c> Open" is the number of "| OPEN |" markers   *)
(* of the resulting file.  The store breaks the first: an insert that      *)
(* read the file an earlier insert replaced counts from the old total,     *)
(* and a header without "(next available: ...)" is not rewritten at all.   *)
(***************************************************************************)
\* the number after "Total Ideas:" where it first stands in a content
HeaderTotal(content) ==
    LET hits == {i \in 1..Len(content) : content[i].k = "total"}
    IN  content[CHOOSE i \in hits : \A j \in hits : i <= j].n

HasTotal(content) == \E i \in 1..Len(content) : content[i].k = "total"

\* the IDEAS file before the first call: inode 1, which no call writes
FirstIdeas == disk[1]

C22_CountMetadata ==
    (\A p \in Procs : pc[p] \in {"idle", "done"}) =>
    /\ (HasTotal(FirstIdeas) /\ path["IDEAS"] # NoIno) =>
          HeaderTotal(Visible("IDEAS")) =
              HeaderTotal(FirstIdeas)
                  + Cardinality({o \in returned : o.type = "IDEAS"})
    /\ (\E o \in returned : o.type = "ISSUES") =>
          LET content == Visible("ISSUES")
          IN  \A i \in 1..Len(content) :
                  content[i].k = "summary" =>
                      content[i].n =
                          Cardinality({j \in RecordsAt(content) :
                                          content[j].fl = "open"})

(***************************************************************************)
(* C23.  Lock release on every exit path: when get_next_id, insert_idea    *)
(* or insert_issue has returned or raised (missing anchor, atomic-write    *)
(* failure, read fault), the calling process holds no lock; and a process  *)
(* that asks for a lock holds none.                                        *)
(***************************************************************************)
C23_LockReleased ==
    \A p \in Procs :
        /\ pc[p] \in {"idle", "done", "dead"} => ~held[p]
        /\ pc[p] \in {"gni_open", "gni_lock", "ins_check", "ins_open",
                      "ins_lock"} => ~held[p]

\* a call has ended in a failed atomic write and holds no lock; another
\* process has since taken the lock on the same file
C23_Witness ==
    \E p, q \in Procs :
        /\ p # q
        /\ pc[p] = "done" /\ res[p].msg = "Atomic write failed" /\ ~held[p]
        /\ op[q].type = op[p].type
        /\ held[q] /\ fd[q] = path[op[p].type]

(***************************************************************************)
(* C24.  Progress: under fair scheduling, with no process killed or        *)
(* suspended while it holds the lock, every get_next_id, insert and        *)
(* capture call that was issued eventually returns, with a result or with  *)
(* an error; a process that waits for the lock is not left waiting.  A     *)
(* call that was issued is never idle again, so "every issued call         *)
(* returns" is: from some point on every process is idle or has returned.  *)
(***************************************************************************)
C24_Progress == <>[](\A p \in Procs : pc[p] \in {"idle", "done"})

\* a process waits in flock() for a lock that another process holds
C24_Witness ==
    \E p, q \in Procs :
        /\ p # q
        /\ pc[p] \in {"gni_lock", "ins_lock"}
        /\ held[q] /\ fd[q] = fd[p]

(***************************************************************************)
(* C25.  Completion order determines ID order: when the insert of a        *)
(* capture returns success, its identifier is numerically greater than     *)
(* the identifier of every capture on the same backing file whose insert   *)
(* returned success before.  The store breaks it: two captures that read   *)
(* the file before either has written get the same identifier, and both    *)
(* inserts succeed.                                                        *)
(***************************************************************************)
C25_CompletionOrder ==
    [][\A p \in Procs :
          (pc[p] = "ins_unlock" /\ pc'[p] = "done" /\ op[p].name = "capture")
          => \A o \in returned :
                (o.name = "capture" /\ o.type = op[p].type)
                => DecValue(o.id.ds) < DecValue(op[p].id.ds)]_vars

(***************************************************************************)
(* C26.  Atomic-write failure: when a step of the atomic-write phase       *)
(* (creating the temporary file, writing it, renaming it over the target)  *)
(* fails with an I/O fault, the insert raises GovernanceFileError, no      *)
(* temporary file of the call remains, and the target file is unchanged.   *)
(* The store breaks it: tempfile.mkstemp stands before the try block of    *)
(* atomic_write, and its OSError leaves insert as it is.                   *)
(***************************************************************************)
C26_AtomicWriteFailure ==
    [][\A p \in Procs :
          (pc[p] \in {"aw_mkstemp", "aw_write", "aw_replace"} /\ pc'[p] = "done")
          => /\ res'[p].kind = "GovernanceFileError"
             /\ tmp[p] \notin temps'
             /\ Visible(op[p].type)' = Visible(op[p].type)]_vars

\* sig occurs in str after str.lower(): its atoms stand next to each other
Occurs(sig, str) ==
    \E i \in 1..Len(str) :
        /\ i + Len(sig) - 1 <= Len(str)
        /\ \A k \in 1..Len(sig) : LowerAtom(str[i + k - 1]) = sig[k]

HasHigh(str) == \E i \in 1..Len(high_signals) : Occurs(high_signals[i], str)
HasLow(str) == \E i \in 1..Len(low_signals) : Occurs(low_signals[i], str)

(***************************************************************************)
(* C27.  suggest_priority_or_severity returns HIGH whenever the item text  *)
(* contains a high-urgency keyword (in any case of its letters, also       *)
(* inside a longer word), also when it contains a low-urgency keyword as   *)
(* well; LOW when it contains a low-urgency keyword and no high-urgency    *)
(* keyword; MEDIUM when it contains neither.                               *)
(***************************************************************************)
C27_Priority ==
    apc = "suggested" =>
        /\ HasHigh(text) => priority = "HIGH"
        /\ (HasLow(text) /\ ~HasHigh(text)) => priority = "LOW"
        /\ (~HasLow(text) /\ ~HasHigh(text)) => priority = "MEDIUM"

\* a text with a high-urgency and a low-urgency keyword has got HIGH
C27_Witness ==
    /\ apc = "suggested"
    /\ HasHigh(text) /\ HasLow(text)
    /\ priority = "HIGH"

(***************************************************************************)
(* C28.  Freshness of allocated identifiers, as stated: the identifier     *)
(* get_next_id returned to a capture is reported as absent by              *)
(* check_id_collision on the same content, and a capture with no other     *)
(* writer between its get_next_id and its insert never raises              *)
(* IDCollisionError.  The second half fails when the read of the collision *)
(* re-check fails: check_id_collision then answers True.                   *)
(***************************************************************************)
C28_Fresh ==
    \A p \in Procs :
        op[p].name = "capture" =>
            /\ pc[p] = "ins_check" =>
                  ~check_id_collision(op[p].type, op[p].id, FALSE)
            /\ pc[p] = "done" => res[p].kind # "IDCollisionError"

(***************************************************************************)
(* C28, amended.  The identifier get_next_id returned to a capture is      *)
(* reported as absent by check_id_collision on the same content, and a     *)
(* capture with no other writer between its get_next_id and its insert     *)
(* raises IDCollisionError only when open() or read() of the collision     *)
(* re-check fails.                                                         *)
(***************************************************************************)
C28_FreshUnlessReadFault ==
    [][\A p \in Procs :
          op[p].name = "capture" =>
              /\ pc[p] = "ins_check" =>
                    ~check_id_collision(op[p].type, op[p].id, FALSE)
              /\ (pc[p] # "done" /\ pc'[p] = "done"
                    /\ res'[p].kind = "IDCollisionError")
                 => (pc[p] = "ins_check" /\ nfaults' = nfaults + 1)]_vars

\* get_next_id has found identifiers in the file, and the capture's insert
\* has passed the collision re-check with the one it returned
C28_Witness ==
    \E p \in Procs :
        /\ op[p].name = "capture"
        /\ pc[p] = "ins_open"
        /\ FindAllIds(op[p].id.pfx, Visible(op[p].type)) # {}
        /\ DecValue(op[p].id.ds) > 1

(***************************************************************************)
(* C29.  An insert reads current content: the content f.read() gives an    *)
(* insert that holds the lock is the content stored under the backing-file *)
(* path at that moment.  The store breaks it: the descriptor was opened    *)
(* before the wait for the lock, and a rename in between leaves it on the  *)
(* superseded inode.                                                       *)
(***************************************************************************)
C29_ReadsCurrent ==
    [][\A p \in Procs :
          (pc[p] = "ins_read" /\ pc'[p] # "ins_read")
          => /\ fd[p] = path[op[p].type]
             /\ disk[fd[p]] = Visible(op[p].type)]_vars

(***************************************************************************)
(* C30.  Frame of the store operations: a step changes the content under   *)
(* the path of a backing file only when it is the rename of an insert into *)
(* that file (get_next_id changes none, insert_idea only IDEAS,            *)
(* insert_issue only ISSUES), and every record block that stood in the     *)
(* file before the rename stands in it, unchanged, after it.  The store    *)
(* breaks the last part: an insert that read superseded content renames a  *)
(* file without the record committed in between.                           *)
(***************************************************************************)
C30_Frame ==
    [][\A t \in Types :
          Visible(t)' # Visible(t)
          => /\ \E p \in Procs :
                  /\ pc[p] = "aw_replace" /\ pc'[p] = "ins_unlock"
                  /\ op[p].name \in {"insert", "capture"}
                  /\ op[p].type = t
             /\ \A i \in RecordsAt(Visible(t)) :
                  \E j \in RecordsAt(Visible(t)') :
                      Visible(t)'[j] = Visible(t)[i]]_vars

====
